---- MODULE Spec2Model ----
(***************************************************************************)
(* Model of fe-web-utils.c: message id generator, JSON escaper, JSON       *)
(* serializer, per-client sender and the two fanout loops.                 *)
(*                                                                         *)
(* C strings are sequences of byte values (1..255); NULLSTR is the absent  *)
(* char pointer.  Pointers to clients, servers, handles and SSL channels   *)
(* are names; NULL is the null pointer.                                    *)
(***************************************************************************)
EXTENDS Integers, Sequences, FiniteSets, TLC

VARIABLES
    counter,      \* static int counter of fe_web_generate_message_id
    now,          \* the wall clock, time(NULL)
    lastId,       \* the id returned by the latest call of the generator
    refId,        \* the id returned by the marked call of the current second
    since,        \* number of generator calls made after the marked call
    calls,        \* number of generator calls made in the current second
    str,          \* the argument of fe_web_escape_json
    escaped,      \* the value returned by fe_web_escape_json
    msg,          \* the WEB_MESSAGE_REC handed to fe_web_message_to_json
    json,         \* the value returned by fe_web_message_to_json
    web_clients,  \* the client registry (GSList of WEB_CLIENT_REC)
    client,       \* the fields of each WEB_CLIENT_REC
    delivered,    \* per client: frames its transport accepted without error
    last          \* what the latest call of a send operation did

vars == <<counter, now, lastId, refId, since, calls, str, escaped, msg, json,
          web_clients, client, delivered, last>>

idVars     == <<counter, now, lastId, refId, since, calls>>
escapeVars == <<str, escaped>>
jsonVars   == <<msg, json>>
sendVars   == <<web_clients, client, delivered, last>>

NULL == "NULL"
NULLSTR == <<-1>>

----------------------------------------------------------------------------
(* fe_web_escape_json *)

HexDigit(n) == IF n < 10 THEN 48 + n ELSE 87 + n

\* printf("\\u%04x", b)
Hex4(b) ==
    <<92, 117, HexDigit((b \div 4096) % 16), HexDigit((b \div 256) % 16),
      HexDigit((b \div 16) % 16), HexDigit(b % 16)>>

\* EscapeByte without the branch for the other control bytes.
EscapeByteNoControl(b) ==
    CASE b = 34 -> <<92, 34>>
      [] b = 92 -> <<92, 92>>
      [] b = 8  -> <<92, 98>>
      [] b = 12 -> <<92, 102>>
      [] b = 10 -> <<92, 110>>
      [] b = 13 -> <<92, 114>>
      [] b = 9  -> <<92, 116>>
      [] OTHER  -> <<b>>

EscapeByte(b) ==
    CASE b = 34 -> <<92, 34>>
      [] b = 92 -> <<92, 92>>
      [] b = 8  -> <<92, 98>>
      [] b = 12 -> <<92, 102>>
      [] b = 10 -> <<92, 110>>
      [] b = 13 -> <<92, 114>>
      [] b = 9  -> <<92, 116>>
      [] OTHER  -> IF b < 32 THEN Hex4(b) ELSE <<b>>

RECURSIVE EscapeLoop(_)
EscapeLoop(s) ==
    IF s = <<>> THEN <<>> ELSE EscapeByte(Head(s)) \o EscapeLoop(Tail(s))

fe_web_escape_json(s) ==
    IF s = NULLSTR THEN <<>> ELSE EscapeLoop(s)

----------------------------------------------------------------------------
(* fe_web_type_to_string *)

fe_web_type_to_string(type) ==
    CASE type = "WEB_MSG_AUTH_OK"         -> "auth_ok"
      [] type = "WEB_MSG_MESSAGE"         -> "message"
      [] type = "WEB_MSG_SERVER_STATUS"   -> "server_status"
      [] type = "WEB_MSG_CHANNEL_JOIN"    -> "channel_join"
      [] type = "WEB_MSG_CHANNEL_PART"    -> "channel_part"
      [] type = "WEB_MSG_CHANNEL_KICK"    -> "channel_kick"
      [] type = "WEB_MSG_USER_QUIT"       -> "user_quit"
      [] type = "WEB_MSG_TOPIC"           -> "topic"
      [] type = "WEB_MSG_CHANNEL_MODE"    -> "channel_mode"
      [] type = "WEB_MSG_NICKLIST"        -> "nicklist"
      [] type = "WEB_MSG_NICKLIST_UPDATE" -> "nicklist_update"
      [] type = "WEB_MSG_NICK_CHANGE"     -> "nick_change"
      [] type = "WEB_MSG_USER_MODE"       -> "user_mode"
      [] type = "WEB_MSG_AWAY"            -> "away"
      [] type = "WEB_MSG_WHOIS"           -> "whois"
      [] type = "WEB_MSG_CHANNEL_LIST"    -> "channel_list"
      [] type = "WEB_MSG_STATE_DUMP"      -> "state_dump"
      [] type = "WEB_MSG_ERROR"           -> "error"
      [] type = "WEB_MSG_PONG"            -> "pong"
      [] type = "WEB_MSG_QUERY_OPENED"    -> "query_opened"
      [] type = "WEB_MSG_QUERY_CLOSED"    -> "query_closed"
      [] type = "WEB_MSG_ACTIVITY_UPDATE" -> "activity_update"
      [] type = "WEB_MSG_MARK_READ"       -> "mark_read"
      [] OTHER                            -> "unknown"

----------------------------------------------------------------------------
(* WEB_MESSAGE_REC and fe_web_message_new *)

\* extra_data: the hash table pointer may be NULL; otherwise a map from key
\* strings to value strings.
NoTable == [null |-> TRUE, map |-> <<>>]
Table(m) == [null |-> FALSE, map |-> m]

fe_web_message_new(type, t) ==
    [type |-> type, id |-> NULLSTR, response_to |-> NULLSTR,
     server_tag |-> NULLSTR, target |-> NULLSTR, nick |-> NULLSTR,
     text |-> NULLSTR, timestamp |-> t, level |-> 0, is_own |-> FALSE,
     extra_data |-> Table(<<>>)]

\* The parts of the state a specification of another part leaves alone.
IdleId ==
    /\ counter = 0 /\ now = 0 /\ lastId = <<>> /\ refId = <<>>
    /\ since = 0 /\ calls = 0

IdleEscape == str = <<>> /\ escaped = <<>>

IdleJson == msg = fe_web_message_new("WEB_MSG_PONG", 0) /\ json = <<>>

----------------------------------------------------------------------------
(* fe_web_message_to_json *)

\* The output is the sequence of pieces the g_string_append calls produce:
\*   "{"  "}"  ","        structural characters
\*   key     "\"<k>\":"   with the literal key name k
\*   ekey    "\"<v>\":"   with the escaped bytes v
\*   string  "\"<v>\""    with the escaped bytes v
\*   name    "\"<k>\""    with the type name k
\*   number  the decimal digits v
\*   literal the bare word k
\*   raw     the bytes v, unquoted
Tok(t, k, v) == [t |-> t, k |-> k, v |-> v]
LBrace   == Tok("{", "", <<>>)
RBrace   == Tok("}", "", <<>>)
Comma    == Tok(",", "", <<>>)
Key(k)   == Tok("key", k, <<>>)
EKey(v)  == Tok("ekey", "", v)
Str(v)   == Tok("string", "", v)
Name(k)  == Tok("name", k, <<>>)
Word(k)  == Tok("literal", k, <<>>)
Raw(v)   == Tok("raw", "", v)

RECURSIVE Digits(_)
Digits(n) == IF n < 10 THEN <<48 + n>> ELSE Digits(n \div 10) \o <<48 + (n % 10)>>

\* printf("%d", n) and printf("%ld", n)
Dec(n) == IF n < 0 THEN <<45>> \o Digits(-n) ELSE Digits(n)
Number(n) == Tok("number", "", Dec(n))

PARAMS == <<112, 97, 114, 97, 109, 115>>   \* "params"
BRACKET == 91                               \* '['

\* One hash table entry (lines 274-296).
ExtraEntry(key_str, value_str) ==
    IF key_str = PARAMS /\ value_str # NULLSTR /\ value_str # <<>>
       /\ Head(value_str) = BRACKET
    THEN <<EKey(fe_web_escape_json(key_str)), Raw(value_str)>>
    ELSE <<EKey(fe_web_escape_json(key_str)), Str(fe_web_escape_json(value_str))>>

\* The g_hash_table_iter loop; order is the iteration order of the table.
RECURSIVE ExtraLoop(_, _, _)
ExtraLoop(order, map, first) ==
    IF order = <<>> THEN <<>>
    ELSE (IF first THEN <<>> ELSE <<Comma>>)
         \o ExtraEntry(Head(order), map[Head(order)])
         \o ExtraLoop(Tail(order), map, FALSE)

JsonId(m) ==
    IF m.id # NULLSTR
    THEN <<Key("id"), Str(fe_web_escape_json(m.id)), Comma>> ELSE <<>>

JsonType(m) == <<Key("type"), Name(fe_web_type_to_string(m.type))>>

JsonOpt(k, s) ==
    IF s # NULLSTR THEN <<Comma, Key(k), Str(fe_web_escape_json(s))>> ELSE <<>>

\* JsonText without the nicklist_update branch.
JsonTextAlwaysText(m) ==
    IF m.text # NULLSTR
    THEN <<Comma, Key("text"), Str(fe_web_escape_json(m.text))>>
    ELSE <<>>

JsonText(m) ==
    IF m.text # NULLSTR
    THEN IF m.type = "WEB_MSG_NICKLIST_UPDATE"
         THEN <<Comma, Key("task"), Str(fe_web_escape_json(m.text))>>
         ELSE <<Comma, Key("text"), Str(fe_web_escape_json(m.text))>>
    ELSE <<>>

JsonTimestamp(m) == <<Comma, Key("timestamp"), Number(m.timestamp)>>

JsonLevel(m) ==
    IF m.level # 0 THEN <<Comma, Key("level"), Number(m.level)>> ELSE <<>>

JsonIsOwn(m) ==
    IF m.type = "WEB_MSG_MESSAGE"
    THEN <<Comma, Key("is_own"), Word(IF m.is_own THEN "true" ELSE "false")>>
    ELSE <<>>

JsonExtra(m, order) ==
    IF ~m.extra_data.null /\ Cardinality(DOMAIN m.extra_data.map) > 0
    THEN <<Comma, Key("extra"), LBrace>>
         \o ExtraLoop(order, m.extra_data.map, TRUE) \o <<RBrace>>
    ELSE <<>>

fe_web_message_to_json(m, order) ==
    <<LBrace>>
    \o JsonId(m)
    \o JsonType(m)
    \o JsonOpt("response_to", m.response_to)
    \o JsonOpt("server", m.server_tag)
    \o JsonOpt("channel", m.target)
    \o JsonOpt("nick", m.nick)
    \o JsonText(m)
    \o JsonTimestamp(m)
    \o JsonLevel(m)
    \o JsonIsOwn(m)
    \o JsonExtra(m, order)
    \o <<RBrace>>

\* The iteration orders a hash table with these keys can have.
Orders(keys) ==
    {o \in [1..Cardinality(keys) -> keys] :
        \A i, j \in DOMAIN o : i # j => o[i] # o[j]}

TableOrders(m) ==
    IF m.extra_data.null THEN {<<>>} ELSE Orders(DOMAIN m.extra_data.map)

----------------------------------------------------------------------------
(* External capabilities used by the sender *)

\* What is framed: the plain JSON bytes, or the output of the cipher.
Plain(j) == [enc |-> FALSE, data |-> j]

\* fe_web_crypto_encrypt: the ciphertext of j.
fe_web_crypto_encrypt(j) == [enc |-> TRUE, data |-> j]

\* fe_web_websocket_create_frame(opcode, payload, len, &frame_len)
fe_web_websocket_create_frame(opcode, payload) ==
    [opcode |-> opcode, payload |-> payload]

NoFrame == [opcode |-> 0, payload |-> Plain(<<>>)]

OP_TEXT   == 1
OP_BINARY == 2

----------------------------------------------------------------------------
(* fe_web_send_message *)

\* One printtext call: the client id and the type name the line shows
\* (NULL where the format prints none) and the flag values it prints.
LogLine(event, id, type, flags) ==
    [event |-> event, id |-> id, type |-> type, flags |-> flags]

Flag(b) == IF b THEN 1 ELSE 0

\* What one call did.  written: "none", "plain", "ssl_ok" (fe_web_ssl_write
\* returned >= 0) or "ssl_err"; counted: messages_sent was incremented.
Result(outcome, log, frame, written, counted, key_lookups, encrypts) ==
    [outcome |-> outcome, log |-> log, frame |-> frame, written |-> written,
     counted |-> counted, key_lookups |-> key_lookups, encrypts |-> encrypts]

\* Abort returning without the printtext call.
AbortSilently(outcome, log, key_lookups, encrypts) ==
    Result(outcome, <<>>, NoFrame, "none", FALSE, key_lookups, encrypts)

Abort(outcome, log, key_lookups, encrypts) ==
    Result(outcome, log, NoFrame, "none", FALSE, key_lookups, encrypts)

\* Ready with the auth_ok rule applied to every type.
ReadyHandshakeOnly(c, type) == c.handshake_done

\* Lines 323-339: TRUE when the client may receive a message of this type.
Ready(c, type) ==
    IF type # "WEB_MSG_AUTH_OK"
    THEN c.authenticated /\ c.handshake_done
    ELSE c.handshake_done

\* Transmit without the return of line 405.
TransmitCountsFailure(c, type_str, frame, log, key_lookups, encrypts, o) ==
    IF c.use_ssl /\ c.ssl_channel # NULL
    THEN Result(IF o.ssl_ret < 0 THEN "ssl_write_failed" ELSE "sent",
                Append(log, LogLine(IF o.ssl_ret < 0 THEN "ssl_write_failed"
                                    ELSE "sent", c.id, type_str, <<>>)),
                frame, IF o.ssl_ret < 0 THEN "ssl_err" ELSE "ssl_ok", TRUE,
                key_lookups, encrypts)
    ELSE Result("sent", Append(log, LogLine("sent", c.id, type_str, <<>>)),
                frame, "plain", TRUE, key_lookups, encrypts)

\* Lines 395-421, given the frame built above.
Transmit(c, type_str, frame, log, key_lookups, encrypts, o) ==
    IF c.use_ssl /\ c.ssl_channel # NULL
    THEN IF o.ssl_ret < 0
         THEN Result("ssl_write_failed",
                     Append(log, LogLine("ssl_write_failed", c.id, type_str, <<>>)),
                     frame, "ssl_err", FALSE, key_lookups, encrypts)
         ELSE Result("sent",
                     Append(log, LogLine("sent", c.id, type_str, <<>>)),
                     frame, "ssl_ok", TRUE, key_lookups, encrypts)
    ELSE Result("sent",
                Append(log, LogLine("sent", c.id, type_str, <<>>)),
                frame, "plain", TRUE, key_lookups, encrypts)

\* EncryptAndSend sending the plain JSON when no key is available.
EncryptAndSendFallsBack(c, type_str, j, log, o) ==
    IF c.encryption_enabled /\ o.key # NULL
    THEN IF ~o.enc_ok
         THEN Abort("encrypt_failed",
                    Append(log, LogLine("encrypt_failed", c.id, type_str, <<>>)),
                    1, 1)
         ELSE Transmit(c, type_str,
                       fe_web_websocket_create_frame(OP_BINARY,
                                                     fe_web_crypto_encrypt(j)),
                       Append(log, LogLine("encrypted", c.id, type_str, <<>>)),
                       1, 1, o)
    ELSE Transmit(c, type_str,
                  fe_web_websocket_create_frame(OP_TEXT, Plain(j)),
                  log, IF c.encryption_enabled THEN 1 ELSE 0, 0, o)

\* Lines 355-393 followed by the transmission.
EncryptAndSend(c, type_str, j, log, o) ==
    IF c.encryption_enabled
    THEN IF o.key = NULL
         THEN Abort("no_key",
                    Append(log, LogLine("no_key", c.id, type_str, <<>>)), 1, 0)
         ELSE IF ~o.enc_ok
              THEN Abort("encrypt_failed",
                         Append(log, LogLine("encrypt_failed", c.id, type_str, <<>>)),
                         1, 1)
              ELSE Transmit(c, type_str,
                            fe_web_websocket_create_frame(OP_BINARY,
                                                          fe_web_crypto_encrypt(j)),
                            Append(log, LogLine("encrypted", c.id, type_str, <<>>)),
                            1, 1, o)
    ELSE Transmit(c, type_str,
                  fe_web_websocket_create_frame(OP_TEXT, Plain(j)),
                  log, 0, 0, o)

\* cl: the client records; cid: the client pointer; m: the message; order:
\* the iteration order of m's hash table; o: what the key lookup, the cipher
\* and the SSL write return in this call.
fe_web_send_message(cl, cid, m, order, o) ==
    LET type_str == fe_web_type_to_string(m.type) IN
    IF cid = NULL
    THEN Abort("client_null", <<LogLine("client_null", NULL, type_str, <<>>)>>, 0, 0)
    ELSE LET c == cl[cid] IN
         IF ~Ready(c, m.type)
         THEN IF m.type # "WEB_MSG_AUTH_OK"
              THEN Abort("not_ready",
                         <<LogLine("not_ready", c.id, type_str,
                                   <<Flag(c.authenticated), Flag(c.handshake_done)>>)>>,
                         0, 0)
              ELSE Abort("no_handshake",
                         <<LogLine("no_handshake", c.id, type_str, <<>>)>>, 0, 0)
         ELSE IF c.handle = NULL
              THEN Abort("handle_null",
                         <<LogLine("handle_null", c.id, type_str, <<>>)>>, 0, 0)
              ELSE EncryptAndSend(c, type_str, fe_web_message_to_json(m, order),
                                  <<LogLine("sending", c.id, type_str, <<>>)>>, o)

----------------------------------------------------------------------------
(* The effect of one sender call on the program state *)

\* acc: the client records, the frames each transport accepted, the results
\* of the sender calls made so far in this operation, and the registry
\* entries the loop has visited.
Call(acc, cid, m, order, o) ==
    LET r == fe_web_send_message(acc.client, cid, m, order, o) IN
    [client    |-> IF r.counted
                   THEN [acc.client EXCEPT ![cid].messages_sent = @ + 1]
                   ELSE acc.client,
     delivered |-> IF r.written \in {"plain", "ssl_ok"}
                   THEN [acc.delivered EXCEPT ![cid] = @ + 1]
                   ELSE acc.delivered,
     res       |-> [acc.res EXCEPT ![cid] = Append(@, r)],
     visited   |-> acc.visited]

Visit(acc, cid) == [acc EXCEPT !.visited = Append(@, cid)]

----------------------------------------------------------------------------
(* fe_web_send_to_server_clients and fe_web_send_to_all_clients *)

\* ServerSelects without the wants_all_servers alternative.
ServerSelectsBoundOnly(c, server) == c.authenticated /\ c.server = server

\* AllSelects without the authenticated test.
AllSelectsEveryone(c) == TRUE

\* Lines 436-437.
ServerSelects(c, server) ==
    c.authenticated /\ (c.server = server \/ c.wants_all_servers)

\* Line 451.
AllSelects(c) == c.authenticated

\* The for loop of lines 432-440; tmp is the rest of the list.
RECURSIVE ServerLoop(_, _, _, _, _, _)
ServerLoop(tmp, acc, server, m, order, env) ==
    IF tmp = <<>> THEN acc
    ELSE LET cid == Head(tmp)
             seen == Visit(acc, cid)
         IN  ServerLoop(Tail(tmp),
                        IF ServerSelects(acc.client[cid], server)
                        THEN Call(seen, cid, m, order, env[cid]) ELSE seen,
                        server, m, order, env)

fe_web_send_to_server_clients(acc, server, m, order, env) ==
    IF server = NULL THEN acc
    ELSE ServerLoop(web_clients, acc, server, m, order, env)

\* AllLoop leaving the loop at the first send that does not complete.
RECURSIVE AllLoopStopsAtFailure(_, _, _, _, _)
AllLoopStopsAtFailure(tmp, acc, m, order, env) ==
    IF tmp = <<>> THEN acc
    ELSE LET cid == Head(tmp)
             seen == Visit(acc, cid)
             next == IF acc.client[cid].authenticated
                     THEN Call(seen, cid, m, order, env[cid]) ELSE seen
         IN  IF next.res[cid] # <<>> /\ next.res[cid][1].outcome # "sent"
             THEN next
             ELSE AllLoopStopsAtFailure(Tail(tmp), next, m, order, env)

\* The for loop of lines 448-454.
RECURSIVE AllLoop(_, _, _, _, _)
AllLoop(tmp, acc, m, order, env) ==
    IF tmp = <<>> THEN acc
    ELSE LET cid == Head(tmp)
             seen == Visit(acc, cid)
         IN  AllLoop(Tail(tmp),
                     IF AllSelects(acc.client[cid])
                     THEN Call(seen, cid, m, order, env[cid]) ELSE seen,
                     m, order, env)

fe_web_send_to_all_clients(acc, m, order, env) ==
    AllLoop(web_clients, acc, m, order, env)

----------------------------------------------------------------------------
(* State of the sender and of the fanout *)

MaxSent == 2          \* calls are made while every messages_sent is below this

Servers == {"S1", "S2"}

Range(s) == {s[i] : i \in DOMAIN s}
Registry == Range(web_clients)

\* What the external capabilities can return in one sender call.  The
\* pipeline stops at the first failure, so one failing capability per call
\* covers every combination.
OkOutcome == [key |-> "KEY", enc_ok |-> TRUE, ssl_ret |-> 7]

Outcomes ==
    { OkOutcome,
      [key |-> "KEY", enc_ok |-> TRUE,  ssl_ret |-> 0],
      [key |-> NULL,  enc_ok |-> TRUE,  ssl_ret |-> 7],
      [key |-> "KEY", enc_ok |-> FALSE, ssl_ret |-> 7],
      [key |-> "KEY", enc_ok |-> TRUE,  ssl_ret |-> -1] }

\* The outcomes that differ in a capability a call for client c consults:
\* none when the call stops before the pipeline, the key and the cipher only
\* with encryption_enabled, the SSL write only with use_ssl and a channel.
OutcomesFor(c, type) ==
    IF ~Ready(c, type) \/ c.handle = NULL THEN {OkOutcome}
    ELSE {o \in Outcomes :
            /\ (o.key = NULL \/ ~o.enc_ok) => c.encryption_enabled
            /\ o.ssl_ret # 7 => (c.use_ssl /\ c.ssl_channel # NULL)}

\* The outcomes of one fanout call that sends to the clients in sel.
Envs(sel, type) ==
    {e \in [Registry -> Outcomes] :
        \A i \in Registry :
            e[i] \in IF i \in sel THEN OutcomesFor(client[i], type)
                     ELSE {OkOutcome}}

SendTypes == {"WEB_MSG_AUTH_OK", "WEB_MSG_MESSAGE"}
SendMessages == {fe_web_message_new(t, 0) : t \in SendTypes}

\* Every combination of the fields the sender and the fanout read.
ClientStates ==
    [authenticated : BOOLEAN, handshake_done : BOOLEAN,
     handle : {NULL, "H"}, use_ssl : BOOLEAN, ssl_channel : {NULL, "CH"},
     encryption_enabled : BOOLEAN, server : Servers,
     wants_all_servers : BOOLEAN]

\* The client states of a registry of several clients: ready clients on a
\* plain transport, which differ in what the fanout filters read and in
\* whether their frames are encrypted.
FanoutStates ==
    {p \in ClientStates :
        /\ p.handshake_done /\ p.handle # NULL
        /\ ~p.use_ssl /\ p.ssl_channel = NULL}

ClientRec(id, p) ==
    [id |-> id, authenticated |-> p.authenticated,
     handshake_done |-> p.handshake_done, handle |-> p.handle,
     use_ssl |-> p.use_ssl, ssl_channel |-> p.ssl_channel,
     encryption_enabled |-> p.encryption_enabled, server |-> p.server,
     wants_all_servers |-> p.wants_all_servers, messages_sent |-> 0]

\* last: the operation called ("send", "to_server", "to_all"), its
\* arguments, the hash table order and the capability outcomes of the call,
\* the registry entries its loop visited and the result of every sender call
\* it made, per client.
NoCall(reg) ==
    [op |-> "none", cid |-> NULL, server |-> NULL,
     m |-> fe_web_message_new("WEB_MSG_PONG", 0), order |-> <<>>,
     env |-> [i \in Range(reg) |-> OkOutcome],
     visited |-> <<>>, res |-> [i \in Range(reg) \cup {NULL} |-> <<>>]]

Start == [client |-> client, delivered |-> delivered,
          res |-> [i \in Registry \cup {NULL} |-> <<>>], visited |-> <<>>]

IdleOthers == IdleId /\ IdleEscape /\ IdleJson

InitRegistry(reg, states) ==
    /\ web_clients = reg
    /\ \E p \in [Range(reg) -> states] :
           client = [i \in Range(reg) |-> ClientRec(i, p[i])]
    /\ delivered = [i \in Range(reg) |-> 0]
    /\ last = NoCall(reg)

\* The client states of the registry of three clients: as FanoutStates, all
\* bound to one server.
BoundStates ==
    {p \in FanoutStates : p.server = "S1" /\ ~p.wants_all_servers}

\* A registry of two clients.
Init ==
    /\ IdleOthers
    /\ InitRegistry(<<"c1", "c2">>, FanoutStates)

\* A registry of one client, in any state.
InitSend ==
    /\ IdleOthers
    /\ InitRegistry(<<"c1">>, ClientStates)

\* Either of them.
InitAll == Init \/ InitSend

\* A registry of three clients.
InitThree ==
    /\ IdleOthers
    /\ InitRegistry(<<"c1", "c2", "c3">>, BoundStates)

CanCall == \A i \in Registry : client[i].messages_sent < MaxSent

Finish(acc, op, cid, server, m, order, env) ==
    /\ client' = acc.client
    /\ delivered' = acc.delivered
    /\ last' = [op |-> op, cid |-> cid, server |-> server, m |-> m,
                order |-> order, env |-> env,
                visited |-> acc.visited, res |-> acc.res]
    /\ UNCHANGED <<web_clients, idVars, escapeVars, jsonVars>>

SendMessage ==
    /\ CanCall
    /\ \E cid \in Registry \cup {NULL}, m \in SendMessages, o \in Outcomes :
         \E order \in TableOrders(m) :
           /\ o \in IF cid = NULL THEN {OkOutcome} ELSE OutcomesFor(client[cid], m.type)
           /\ Finish(Call(Start, cid, m, order, o), "send", cid, NULL, m, order,
                     [i \in Registry |-> IF i = cid THEN o ELSE OkOutcome])

SendToServerClients ==
    /\ CanCall
    /\ \E server \in Servers \cup {NULL}, m \in SendMessages :
         \E order \in TableOrders(m),
            env \in Envs({i \in Registry : server # NULL
                             /\ ServerSelects(client[i], server)}, m.type) :
           Finish(fe_web_send_to_server_clients(Start, server, m, order, env),
                  "to_server", NULL, server, m, order, env)

SendToAllClients ==
    /\ CanCall
    /\ \E m \in SendMessages :
         \E order \in TableOrders(m),
            env \in Envs({i \in Registry : AllSelects(client[i])}, m.type) :
           Finish(fe_web_send_to_all_clients(Start, m, order, env),
                  "to_all", NULL, NULL, m, order, env)

Next == SendMessage \/ SendToServerClients \/ SendToAllClients

Spec == Init /\ [][Next]_vars

SpecSend == InitSend /\ [][Next]_vars

SpecAll == InitAll /\ [][Next]_vars

SpecThree == InitThree /\ [][Next]_vars

----------------------------------------------------------------------------
(* fe_web_generate_message_id *)

WRAP == 10000

MaxTime == 1    \* the clock advances at most this often
MaxLead == 1    \* calls of a second made before its marked call, and the
                \* most calls of a second that ends

RECURSIVE Zeros(_)
Zeros(n) == IF n <= 0 THEN <<>> ELSE <<48>> \o Zeros(n - 1)

\* printf("%04d", n)
Pad4(n) ==
    IF n < 0 THEN <<45>> \o Zeros(3 - Len(Digits(-n))) \o Digits(-n)
    ELSE Zeros(4 - Len(Digits(n))) \o Digits(n)

\* g_strdup_printf("%ld-%04d", (long)now, counter)
FormatId(t, c) == Dec(t) \o <<45>> \o Pad4(c)

\* NextCounter wrapping one call late.
NextCounterOffByOne(c) == IF c + 1 > WRAP THEN 0 ELSE c + 1

\* Lines 34-37.
NextCounter(c) == IF c + 1 >= WRAP THEN 0 ELSE c + 1

IdleSend ==
    /\ web_clients = <<>> /\ client = <<>> /\ delivered = <<>>
    /\ last = NoCall(<<>>)

\* static int counter = 0; no call made yet.
InitId ==
    /\ counter = 0 /\ now = 0 /\ lastId = <<>> /\ refId = <<>>
    /\ since = 0 /\ calls = 0
    /\ IdleEscape /\ IdleJson /\ IdleSend

\* One call.  mark: this call becomes the marked call of the second, the
\* first of a run of consecutive calls whose ids are compared with its id.
GenerateMessageId ==
    /\ calls < WRAP + MaxLead + 1
    /\ \E mark \in BOOLEAN :
         /\ mark => (refId = <<>> /\ calls <= MaxLead)
         /\ lastId' = FormatId(now, counter)
         /\ counter' = NextCounter(counter)
         /\ calls' = calls + 1
         /\ refId' = IF mark THEN FormatId(now, counter) ELSE refId
         /\ since' = IF mark \/ refId = <<>> THEN 0 ELSE since + 1
    /\ UNCHANGED <<now, escapeVars, jsonVars, sendVars>>

\* The wall clock reaches the next second.
Tick ==
    /\ now < MaxTime
    /\ calls <= MaxLead
    /\ now' = now + 1
    /\ calls' = 0 /\ refId' = <<>> /\ since' = 0
    /\ UNCHANGED <<counter, lastId, escapeVars, jsonVars, sendVars>>

NextId == GenerateMessageId \/ Tick

SpecId == InitId /\ [][NextId]_vars

----------------------------------------------------------------------------
(* Callers of fe_web_escape_json *)

MaxStrLen == 3

\* Bytes of every class the switch distinguishes: the five short escapes,
\* other control bytes, the quote, the backslash, ASCII, DEL, and bytes
\* above 127 (195 169 is a two-byte UTF-8 sequence, 255 is never valid).
Bytes == {1, 8, 9, 10, 12, 13, 31, 34, 92, 65, 117, 127, 195, 169, 255}

Strings(n) == UNION {[1..k -> Bytes] : k \in 0..n}

InitEscape ==
    /\ str \in Strings(MaxStrLen) \cup {NULLSTR}
    /\ escaped = NULLSTR
    /\ IdleId /\ IdleJson /\ IdleSend

EscapeJson ==
    /\ escaped = NULLSTR
    /\ escaped' = fe_web_escape_json(str)
    /\ UNCHANGED <<str, idVars, jsonVars, sendVars>>

NextEscape == EscapeJson

SpecEscape == InitEscape /\ [][NextEscape]_vars

----------------------------------------------------------------------------
(* Callers of fe_web_message_to_json *)

MaxLevel == 1   \* levels range over -MaxLevel..MaxLevel

JsonTypes == {"WEB_MSG_AUTH_OK", "WEB_MSG_MESSAGE", "WEB_MSG_NICKLIST",
              "WEB_MSG_NICKLIST_UPDATE", "WEB_MSG_UNMAPPED"}

NOTE == <<110, 111, 116, 101>>   \* "note"

\* NULL table, empty table, a plain entry, a raw "params" array, and a
\* "params" entry that is no array next to an entry with a NULL value.
JsonTables ==
    { NoTable,
      Table(<<>>),
      Table([k \in {NOTE} |-> <<97, 34, 98>>]),
      Table([k \in {PARAMS} |-> <<91, 49, 93>>]),
      Table([k \in {PARAMS, NOTE} |-> IF k = PARAMS THEN <<120>> ELSE NULLSTR]) }

OptStrings == {NULLSTR, <<97>>}

JsonMessages ==
    [type : JsonTypes, id : OptStrings, response_to : OptStrings,
     server_tag : OptStrings, target : OptStrings, nick : OptStrings,
     text : {NULLSTR, <<>>, <<34>>}, timestamp : {1700000000},
     level : -MaxLevel..MaxLevel, is_own : BOOLEAN,
     extra_data : JsonTables]

InitJson ==
    /\ msg \in JsonMessages
    /\ json = <<>>
    /\ IdleId /\ IdleEscape /\ IdleSend

MessageToJson ==
    /\ json = <<>>
    /\ \E order \in TableOrders(msg) :
         json' = fe_web_message_to_json(msg, order)
    /\ UNCHANGED <<msg, idVars, escapeVars, sendVars>>

NextJson == MessageToJson

SpecJson == InitJson /\ [][NextJson]_vars

----------------------------------------------------------------------------
(* Properties of the sender *)

Accepted == {"plain", "ssl_ok"}

\* The sender calls the latest operation made for c wrote a frame.
Wrote(l, c) == \E i \in DOMAIN l.res[c] : l.res[c][i].written # "none"

\* The transport of c accepted a frame in the latest operation.
Delivered(l, c) == \E i \in DOMAIN l.res[c] : l.res[c][i].written \in Accepted

OkWrites(rs) == Cardinality({i \in DOMAIN rs : rs[i].written \in Accepted})

\* C1: a message that is not auth_ok is written to a client's transport (and
\* counted) only if the client is authenticated and its handshake is done;
\* an auth_ok message only if its handshake is done.
C1_Gating ==
    [][\A c \in Registry :
          (\/ Wrote(last', c)
           \/ delivered'[c] # delivered[c]
           \/ client'[c].messages_sent # client[c].messages_sent)
          => IF last'.m.type # "WEB_MSG_AUTH_OK"
             THEN client[c].authenticated /\ client[c].handshake_done
             ELSE client[c].handshake_done]_vars

\* An unauthenticated client whose handshake is done receives auth_ok.
C1_Witness ==
    \E c \in Registry :
        /\ ~client[c].authenticated /\ client[c].handshake_done
        /\ last.op = "send" /\ last.cid = c
        /\ last.m.type = "WEB_MSG_AUTH_OK"
        /\ Wrote(last, c)

\* C6: with encryption_enabled the only payload written is the ciphertext of
\* the JSON, in a binary frame, and nothing is written when the key is absent
\* or the cipher fails; without it the payload is the plain JSON in a text
\* frame and neither the key lookup nor the cipher is called.
C6_EncryptionAndFrameType ==
    \A c \in Registry : \A i \in DOMAIN last.res[c] :
        LET r == last.res[c][i]
            j == fe_web_message_to_json(last.m, last.order)
            o == last.env[c]
        IN  IF client[c].encryption_enabled
            THEN /\ r.written # "none" =>
                       /\ r.frame = [opcode |-> 2,
                                     payload |-> [enc |-> TRUE, data |-> j]]
                       /\ o.key # NULL /\ o.enc_ok
                       /\ r.key_lookups = 1 /\ r.encrypts = 1
                 /\ r.frame.payload # [enc |-> FALSE, data |-> j]
            ELSE /\ r.written # "none" =>
                       r.frame = [opcode |-> 1,
                                  payload |-> [enc |-> FALSE, data |-> j]]
                 /\ r.key_lookups = 0 /\ r.encrypts = 0

\* A client with encryption_enabled was sent a binary frame.
C6_Witness ==
    \E c \in Registry :
        /\ client[c].encryption_enabled
        /\ last.res[c] # <<>>
        /\ last.res[c][1].written \in Accepted
        /\ last.res[c][1].frame.opcode = 2

AbortOutcomes ==
    {"client_null", "not_ready", "no_handshake", "handle_null", "no_key",
     "encrypt_failed", "ssl_write_failed"}

\* The last line a sender call logged.
LastLine(r) == r.log[Len(r.log)]

\* C7 as stated: every call that aborts logs a line that shows the client
\* identity and the type name.
C7_AbortLogsIdAndType ==
    \A c \in Registry \cup {NULL} : \A i \in DOMAIN last.res[c] :
        LET r == last.res[c][i] IN
        r.outcome # "sent" =>
            /\ r.log # <<>>
            /\ LastLine(r).type = fe_web_type_to_string(last.m.type)
            /\ LastLine(r).id # NULL
            /\ c # NULL => LastLine(r).id = client[c].id

\* C7, amended: every call that aborts logs a line for that abort, which
\* shows the type name, and the client identity when a client was given; the
\* line for an absent client shows no identity.
C7_AbortLogs ==
    \A c \in Registry \cup {NULL} : \A i \in DOMAIN last.res[c] :
        LET r == last.res[c][i] IN
        /\ r.outcome \in AbortOutcomes \cup {"sent"}
        /\ r.outcome # "sent" =>
            /\ r.log # <<>>
            /\ LastLine(r).event = r.outcome
            /\ LastLine(r).type = fe_web_type_to_string(last.m.type)
            /\ LastLine(r).id = IF c = NULL THEN NULL ELSE client[c].id
            /\ r.written \in {"none", "ssl_err"} /\ ~r.counted

\* The sender was called with no client.
C7_Witness ==
    /\ last.op = "send" /\ last.cid = NULL
    /\ Len(last.res[NULL]) = 1
    /\ last.res[NULL][1].outcome = "client_null"

----------------------------------------------------------------------------
(* Properties of the fanout *)

\* The latest operation ran a fanout loop.
IsFanout(l) == l.op = "to_all" \/ (l.op = "to_server" /\ l.server # NULL)

\* The filter of the fanout l, as documented.
Selected(l, c) ==
    IF l.op = "to_all" THEN client[c].authenticated
    ELSE /\ client[c].authenticated
         /\ (client[c].server = l.server \/ client[c].wants_all_servers)

\* C2: a fanout call visits every registry entry once, in order, and what it
\* does for each selected client is what a send to that client alone does:
\* no abort elsewhere in the loop changes it.  A send that finds no key
\* writes nothing and leaves messages_sent as it was.
C2_FailOneContinueAll ==
    [][IsFanout(last') =>
          /\ last'.visited = web_clients
          /\ \A c \in Registry :
                LET lone == fe_web_send_message(client, c, last'.m, last'.order,
                                                last'.env[c])
                    n == IF Selected(last', c) /\ lone.counted THEN 1 ELSE 0
                    d == IF Selected(last', c) /\ lone.written \in Accepted
                         THEN 1 ELSE 0
                IN  /\ last'.res[c] = IF Selected(last', c) THEN <<lone>> ELSE <<>>
                    /\ client'[c].messages_sent = client[c].messages_sent + n
                    /\ delivered'[c] = delivered[c] + d
                    /\ (Selected(last', c) /\ last'.env[c].key = NULL
                        /\ client[c].encryption_enabled) =>
                           /\ ~Wrote(last', c)
                           /\ client'[c].messages_sent = client[c].messages_sent]_vars

\* In a registry of three, the send to the middle client finds no key and
\* both its neighbours receive their frames.
C2_Witness ==
    /\ web_clients = <<"c1", "c2", "c3">>
    /\ last.op = "to_all"
    /\ last.res["c2"] # <<>> /\ last.res["c2"][1].outcome = "no_key"
    /\ Delivered(last, "c1") /\ Delivered(last, "c3")

\* C3: fe_web_send_to_server_clients calls the sender once for each client
\* that is authenticated and either bound to the given server or asking for
\* all servers, and for no other client; with no server it calls the sender
\* for nobody and changes no client.
C3_ServerFilter ==
    [][last'.op = "to_server" =>
          IF last'.server = NULL
          THEN /\ \A c \in Registry : last'.res[c] = <<>>
               /\ last'.visited = <<>>
               /\ client' = client /\ delivered' = delivered
          ELSE \A c \in Registry :
                  /\ Len(last'.res[c]) <= 1
                  /\ Len(last'.res[c]) = 1 <=>
                        /\ client[c].authenticated
                        /\ \/ client[c].server = last'.server
                           \/ client[c].wants_all_servers
                  /\ (Len(last'.res[c]) = 1 /\ client[c].server # last'.server)
                        => client[c].wants_all_servers]_vars

\* A client bound to another server received the message because it asks
\* for all servers.
C3_Witness ==
    /\ last.op = "to_server" /\ last.server # NULL
    /\ \E c \in Registry :
          /\ client[c].server # last.server
          /\ client[c].wants_all_servers
          /\ Delivered(last, c)

\* The sender call for c with outcomes o runs to its end.
Completes(c, type, o) ==
    /\ type = "WEB_MSG_AUTH_OK" \/ client[c].authenticated
    /\ client[c].handshake_done
    /\ client[c].handle # NULL
    /\ client[c].encryption_enabled => (o.key # NULL /\ o.enc_ok)
    /\ (client[c].use_ssl /\ client[c].ssl_channel # NULL) => o.ssl_ret >= 0

\* C4 as stated: fe_web_send_to_all_clients delivers the message to every
\* authenticated client and to no other.
C4_DeliversToEveryAuthenticated ==
    last.op = "to_all" =>
        \A c \in Registry : Delivered(last, c) <=> client[c].authenticated

\* C4, amended: fe_web_send_to_all_clients calls the sender once for every
\* authenticated client, whatever its server, and for no other client; the
\* message is delivered to exactly the authenticated clients whose send
\* completes.
C4_SendsToEveryAuthenticated ==
    last.op = "to_all" =>
        \A c \in Registry :
            /\ Len(last.res[c]) = IF client[c].authenticated THEN 1 ELSE 0
            /\ ~client[c].authenticated => ~Wrote(last, c)
            /\ Delivered(last, c) <=>
                  /\ client[c].authenticated
                  /\ Completes(c, last.m.type, last.env[c])

\* Two authenticated clients bound to different servers both received the
\* message.
C4_Witness ==
    /\ last.op = "to_all"
    /\ \E c, d \in Registry :
          /\ client[c].authenticated /\ client[d].authenticated
          /\ client[c].server # client[d].server
          /\ Delivered(last, c) /\ Delivered(last, d)

\* C5: messages_sent of a client grows by one for each frame its transport
\* accepted in the call and by nothing else, a send to one client changes no
\* other counter, and so the counter equals the number of accepted frames.
C5_SentCounter ==
    /\ [](\A c \in Registry : client[c].messages_sent = delivered[c])
    /\ [][\A c \in Registry :
             /\ client'[c].messages_sent
                   = client[c].messages_sent + OkWrites(last'.res[c])
             /\ (last'.op = "send" /\ last'.cid # c)
                   => client'[c].messages_sent = client[c].messages_sent
             /\ ~Delivered(last', c)
                   => client'[c].messages_sent = client[c].messages_sent]_vars

\* A client that was sent a message before is sent one whose SSL write fails.
C5_Witness ==
    \E c \in Registry :
        /\ client[c].messages_sent = 1
        /\ last.res[c] # <<>>
        /\ last.res[c][1].outcome = "ssl_write_failed"

----------------------------------------------------------------------------
(* Properties of the id generator *)

\* C8: the counter starts at 0, follows the number of calls modulo 10000 and
\* stays in 0..9999; the ids of the 9999 calls after any call of the same
\* second differ from its id, and the id of the 10000th call after it is
\* the same id.
C8_WeakUniqueness ==
    /\ counter \in 0..9999
    /\ now = 0 => counter = calls % 10000
    /\ (now = 0 /\ calls = 1) => lastId = <<48, 45, 48, 48, 48, 48>>
    /\ (refId # <<>> /\ since \in 1..9999) => lastId # refId
    /\ (refId # <<>> /\ since = 10000) => lastId = refId

\* The 10000th call after the marked call of a second has returned.
C8_Witness ==
    /\ refId # <<>> /\ since = 10000 /\ lastId = refId
    /\ now = 1

----------------------------------------------------------------------------
(* Properties of the serializer *)

\* The pieces of toks from index i on that lie directly inside the outer
\* braces; a nested object counts as its opening brace.
RECURSIVE TopLevel(_, _, _)
TopLevel(toks, i, depth) ==
    IF i > Len(toks) THEN <<>>
    ELSE LET t == toks[i]
             here == IF depth = 1 THEN <<t>> ELSE <<>>
             after == CASE t.t = "{" -> depth + 1
                        [] t.t = "}" -> depth - 1
                        [] OTHER     -> depth
         IN  here \o TopLevel(toks, i + 1, after)

ValueKinds == {"string", "name", "number", "literal", "{"}

\* toks is "{", then fields of a key and a value with one comma between
\* consecutive fields, then "}".
WellSeparated(toks) ==
    LET top == TopLevel(toks, 1, 0) IN
    /\ toks # <<>> /\ toks[1].t = "{"
    /\ Len(top) >= 3 /\ Len(top) % 3 = 0
    /\ \A i \in DOMAIN top :
          CASE i % 3 = 1 -> top[i].t = "key"
            [] i % 3 = 2 -> top[i].t \in ValueKinds
            [] OTHER     -> top[i].t = IF i = Len(top) THEN "}" ELSE ","

TopKeys(toks) ==
    LET top == TopLevel(toks, 1, 0) IN
    [n \in 1..(Len(top) \div 3) |-> top[3 * n - 2].k]

If(b, k) == IF b THEN <<k>> ELSE <<>>

\* The keys the field policy includes for m, in the fixed order.
ExpectedKeys(m) ==
    If(m.id # NULLSTR, "id")
    \o <<"type">>
    \o If(m.response_to # NULLSTR, "response_to")
    \o If(m.server_tag # NULLSTR, "server")
    \o If(m.target # NULLSTR, "channel")
    \o If(m.nick # NULLSTR, "nick")
    \o If(m.text # NULLSTR,
          IF m.type = "WEB_MSG_NICKLIST_UPDATE" THEN "task" ELSE "text")
    \o <<"timestamp">>
    \o If(m.level # 0, "level")
    \o If(m.type = "WEB_MSG_MESSAGE", "is_own")
    \o If(~m.extra_data.null /\ DOMAIN m.extra_data.map # {}, "extra")

\* C9: the top-level keys of the output are the included fields in the
\* fixed order, and exactly one comma stands between consecutive fields, none
\* before the first or after the last.
C9_FieldPolicy ==
    json # <<>> =>
        /\ WellSeparated(json)
        /\ TopKeys(json) = ExpectedKeys(msg)

\* A nicklist_update without id and level, with text and two extra entries.
C9_Witness ==
    /\ json # <<>>
    /\ msg.type = "WEB_MSG_NICKLIST_UPDATE"
    /\ msg.id = NULLSTR /\ msg.text # NULLSTR /\ msg.level = 0
    /\ ~msg.extra_data.null /\ Cardinality(DOMAIN msg.extra_data.map) = 2
    /\ TopKeys(json) = <<"type", "task", "timestamp", "extra">>

----------------------------------------------------------------------------
(* Properties of the escaper *)

Cont(b) == b \in 128..191

\* s is well-formed UTF-8 (RFC 3629).
RECURSIVE WellFormedUtf8(_)
WellFormedUtf8(s) ==
    IF s = <<>> THEN TRUE
    ELSE LET b == s[1]
             n == Len(s)
         IN  IF b < 128 THEN WellFormedUtf8(Tail(s))
             ELSE IF b \in 194..223
                  THEN n >= 2 /\ Cont(s[2]) /\ WellFormedUtf8(SubSeq(s, 3, n))
             ELSE IF b \in 224..239
                  THEN /\ n >= 3 /\ Cont(s[2]) /\ Cont(s[3])
                       /\ b = 224 => s[2] >= 160
                       /\ b = 237 => s[2] <= 159
                       /\ WellFormedUtf8(SubSeq(s, 4, n))
             ELSE IF b \in 240..244
                  THEN /\ n >= 4 /\ Cont(s[2]) /\ Cont(s[3]) /\ Cont(s[4])
                       /\ b = 240 => s[2] >= 144
                       /\ b = 244 => s[2] <= 143
                       /\ WellFormedUtf8(SubSeq(s, 5, n))
             ELSE FALSE

HexVal(d) ==
    CASE d \in 48..57  -> d - 48
      [] d \in 97..102 -> d - 87
      [] d \in 65..70  -> d - 55
      [] OTHER         -> -1

\* The UTF-8 bytes of the code point v of the basic plane.
Utf8Of(v) ==
    IF v < 128 THEN <<v>>
    ELSE IF v < 2048 THEN <<192 + (v \div 64), 128 + (v % 64)>>
    ELSE <<224 + (v \div 4096), 128 + ((v \div 64) % 64), 128 + (v % 64)>>

Failed == [ok |-> FALSE, value |-> <<>>]

Prefix(bytes, rest) ==
    IF rest.ok THEN [ok |-> TRUE, value |-> bytes \o rest.value] ELSE Failed

\* The content of a JSON string (RFC 8259, section 7), decoded byte by byte.
RECURSIVE Unescape(_)
Unescape(s) ==
    IF s = <<>> THEN [ok |-> TRUE, value |-> <<>>]
    ELSE LET b == s[1]
             n == Len(s)
         IN  IF b < 32 \/ b = 34 THEN Failed
             ELSE IF b # 92 THEN Prefix(<<b>>, Unescape(Tail(s)))
             ELSE IF n < 2 THEN Failed
             ELSE IF s[2] = 117
                  THEN IF n < 6 \/ \E i \in 3..6 : HexVal(s[i]) < 0 THEN Failed
                       ELSE LET v == 4096 * HexVal(s[3]) + 256 * HexVal(s[4])
                                     + 16 * HexVal(s[5]) + HexVal(s[6])
                            IN  IF v \in 55296..57343 THEN Failed
                                ELSE Prefix(Utf8Of(v), Unescape(SubSeq(s, 7, n)))
             ELSE LET c == CASE s[2] = 34  -> 34
                             [] s[2] = 92  -> 92
                             [] s[2] = 47  -> 47
                             [] s[2] = 98  -> 8
                             [] s[2] = 102 -> 12
                             [] s[2] = 110 -> 10
                             [] s[2] = 114 -> 13
                             [] s[2] = 116 -> 9
                             [] OTHER      -> -1
                  IN  IF c < 0 THEN Failed
                      ELSE Prefix(<<c>>, Unescape(SubSeq(s, 3, n)))

\* A conforming decoder: JSON text is UTF-8 (RFC 8259, section 8.1).
JsonStringDecode(s) == IF WellFormedUtf8(s) THEN Unescape(s) ELSE Failed

Returned(s) == [ok |-> TRUE, value |-> IF s = NULLSTR THEN <<>> ELSE s]

\* C10 as stated: for every input, decoding the output gives the input back.
C10_RoundTrip ==
    escaped # NULLSTR => JsonStringDecode(escaped) = Returned(str)

\* C10, amended: an absent input gives the empty string; the output holds no
\* byte below 32; undoing the escapes byte by byte gives every input back;
\* a conforming decoder gives back every input that is well-formed UTF-8.
C10_RoundTripUtf8 ==
    escaped # NULLSTR =>
        /\ str = NULLSTR => escaped = <<>>
        /\ \A i \in DOMAIN escaped : escaped[i] >= 32
        /\ Unescape(escaped) = Returned(str)
        /\ (str # NULLSTR /\ WellFormedUtf8(str))
              => JsonStringDecode(escaped) = Returned(str)

\* A two-byte UTF-8 sequence followed by a control byte has been escaped.
C10_Witness ==
    /\ str = <<195, 169, 1>>
    /\ escaped = <<195, 169, 92, 117, 48, 48, 48, 49>>

====
